---- MODULE Spec2Model ----
(***************************************************************************)
(* LightCycle (src/src/lib.rs): a consistent hash ring.                    *)
(*                                                                         *)
(* Strings are sequences of one-character strings, ordered bytewise as     *)
(* Rust orders String.  A blake3 digest (64 lowercase hex digits, so its   *)
(* String order is its numeric order) is a natural number.                 *)
(***************************************************************************)
EXTENDS Integers, Sequences, FiniteSets, TLC

VARIABLES replicas, size, resources, hashring, keycache, call, built, clash

vars == <<replicas, size, resources, hashring, keycache, call, built, clash>>

(***************************************************************************)
(* Bounds of the model.                                                    *)
(***************************************************************************)
\* new_with_replica_count(r) is called with r in 0..MaxSmallReplicas ...
MaxSmallReplicas == 2
\* ... or with r = WideReplicas, wide enough for two-digit replica indices
WideReplicas == 11

\* a ring is also observed from the point where it holds Prefilled resources,
\* added one after the other to a fresh ring
Prefilled == 15

(***************************************************************************)
(* Program constants.                                                      *)
(***************************************************************************)
SIZE_PAD == 16
REPLICAS_PAD == 8

(***************************************************************************)
(* Strings.                                                                *)
(***************************************************************************)
\* The characters in use, in byte order ('0' < '1' < ... < '9' < 'a' < ...).
Alphabet == <<"0", "1", "2", "3", "4", "5", "6", "7", "8", "9", "a", "b", "c">>

Ord(ch) == CHOOSE n \in 1..Len(Alphabet) : Alphabet[n] = ch

SetMin(S) == CHOOSE x \in S : \A y \in S : x <= y

SetMax(S) == CHOOSE x \in S : \A y \in S : y <= x

\* s <= t in Rust's String order (lexicographic on bytes).
StrLeq(s, t) ==
    LET n == IF Len(s) < Len(t) THEN Len(s) ELSE Len(t)
        diff == {i \in 1..n : s[i] # t[i]}
    IN  IF diff = {} THEN Len(s) <= Len(t)
        ELSE Ord(s[SetMin(diff)]) < Ord(t[SetMin(diff)])

\* What "{}" prints for a usize: its decimal digits, no padding.
RECURSIVE Decimal(_)
Decimal(i) ==
    IF i < 10 THEN <<Alphabet[i + 1]>>
    ELSE Decimal(i \div 10) \o <<Alphabet[(i % 10) + 1]>>

\* format!("{}{}", id, i)
HashItem(id, i) == id \o Decimal(i)

\* A string as a number, one-to-one (bijective numeration over Alphabet).
RECURSIVE Encode(_)
Encode(s) ==
    IF s = <<>> THEN 0
    ELSE Encode(SubSeq(s, 1, Len(s) - 1)) * (Len(Alphabet) + 1) + Ord(s[Len(s)])

\* blake3::hash(bytes).to_string(): a fixed, collision-free function whose
\* values are scattered over the digest space irrespective of the order of
\* its arguments.  Here: multiplication by 618033 modulo the prime 1000003,
\* a bijection on 0..1000002 (computed in two parts to stay in 32 bits).
Hash(s) ==
    LET n == Encode(s)
    IN  ((n \div 1000) * 31146 + (n % 1000) * 618033) % 1000003

(***************************************************************************)
(* Inputs.                                                                 *)
(***************************************************************************)
\* Identifiers handed to the ring: "a", "a1", "b".
Ids == {<<"a">>, <<"a", "1">>, <<"b">>}

\* A resource (Box<dyn HasId>): its id() and which object it is; a caller
\* holds two objects per identifier.
Tags == {1, 2}

Fruits == {[id |-> i, tag |-> t] : i \in Ids, t \in Tags}

\* Keys looked up: "1", "a", "a1", "a10", "a5", "b", "c".
LookupKeys ==
    {<<"1">>, <<"a">>, <<"a", "1">>, <<"a", "1", "0">>, <<"a", "5">>, <<"b">>, <<"c">>}

ReplicaArgs == (0..MaxSmallReplicas) \cup {WideReplicas}

\* The orders in which a HashMap may yield the keys in S.
Orders(S) ==
    {f \in [1..Cardinality(S) -> S] : \A i, j \in DOMAIN f : f[i] = f[j] => i = j}

(***************************************************************************)
(* The ring as a value, and its operations as functions on that value.     *)
(***************************************************************************)
Empty == <<>>

Default ==
    [replicas |-> 4, size |-> 16, resources |-> Empty, hashring |-> Empty,
     keycache |-> Empty]

new_with_replica_count(r) ==
    [replicas |-> r, size |-> r + SIZE_PAD, resources |-> Empty,
     hashring |-> Empty, keycache |-> Empty]

Self ==
    [replicas |-> replicas, size |-> size, resources |-> resources,
     hashring |-> hashring, keycache |-> keycache]

\* keycache.entry(id).or_default()
CacheOf(lc, id) == IF id \in DOMAIN lc.keycache THEN lc.keycache[id] ELSE Empty

\* The replica loop of add and of rebalance, for one id: the cache after it.
FilledCache(lc, id) ==
    LET old == CacheOf(lc, id)
    IN  [i \in DOMAIN old \cup (0..(lc.replicas - 1)) |->
            IF i \in DOMAIN old THEN old[i] ELSE Hash(HashItem(id, i))]

\* The loop written as 0..=replicas: one replica too many.
ReplicaKeys_Inclusive(lc, id) ==
    {Hash(HashItem(id, i)) : i \in 0..lc.replicas}

\* The keys that loop inserts into the ring for id.
ReplicaKeys(lc, id) == {FilledCache(lc, id)[i] : i \in 0..(lc.replicas - 1)}

\* The replica loop that indexes the keys it computes without caching them.
AddReplicas_NoCache(lc, id) ==
    LET keys == ReplicaKeys(lc, id)
    IN  [lc EXCEPT
            !.hashring = [k \in DOMAIN lc.hashring \cup keys |->
                            IF k \in keys THEN id ELSE lc.hashring[k]]]

\* The replica loop: every insert of one run stores the same value, id, so
\* the ring after the loop does not depend on the order of the inserts.
AddReplicas(lc, id) ==
    LET keys == ReplicaKeys(lc, id)
    IN  [lc EXCEPT
            !.keycache = [x \in DOMAIN lc.keycache \cup {id} |->
                            IF x = id THEN FilledCache(lc, id) ELSE lc.keycache[x]],
            !.hashring = [k \in DOMAIN lc.hashring \cup keys |->
                            IF k \in keys THEN id ELSE lc.hashring[k]]]

\* The loop over ids of rebalance, in the order the HashMap yields them.
RECURSIVE Reindex(_, _)
Reindex(lc, order) ==
    IF order = <<>> THEN lc
    ELSE Reindex(AddReplicas(lc, Head(order)), Tail(order))

\* rebalance that rebuilds the ring at the old replica count.
rebalance_KeepsReplicas(lc, order) ==
    LET count == Cardinality(DOMAIN lc.resources)
    IN  Reindex([lc EXCEPT !.size = count + SIZE_PAD, !.hashring = Empty], order)

\* rebalance that forgets the resource count: the pads alone.
rebalance_PadsOnly(lc, order) ==
    Reindex([lc EXCEPT !.size = SIZE_PAD, !.replicas = REPLICAS_PAD,
                       !.hashring = Empty],
            order)

\* rebalance with the two pads exchanged.
rebalance_SwappedPads(lc, order) ==
    LET count == Cardinality(DOMAIN lc.resources)
    IN  Reindex([lc EXCEPT !.size = count + REPLICAS_PAD,
                           !.replicas = count + SIZE_PAD,
                           !.hashring = Empty],
                order)

\* rebalance that starts from an empty cache as well as an empty ring.
rebalance_ClearsCache(lc, order) ==
    LET count == Cardinality(DOMAIN lc.resources)
    IN  Reindex([lc EXCEPT !.size = count + SIZE_PAD,
                           !.replicas = count + REPLICAS_PAD,
                           !.hashring = Empty,
                           !.keycache = Empty],
                order)

rebalance(lc, order) ==
    LET count == Cardinality(DOMAIN lc.resources)
    IN  Reindex([lc EXCEPT !.size = count + SIZE_PAD,
                           !.replicas = count + REPLICAS_PAD,
                           !.hashring = Empty],
                order)

\* The ids of lc that derive, below lc.replicas, a key another id derives too.
Contended(lc) ==
    LET keys == [x \in DOMAIN lc.resources |-> ReplicaKeys(lc, x)]
    IN  {x \in DOMAIN keys :
            \E y \in DOMAIN keys \ {x} : keys[x] \cap keys[y] # {}}

RECURSIVE SeqOf(_)
SeqOf(S) ==
    IF S = {} THEN <<>>
    ELSE LET x == CHOOSE y \in S : TRUE IN <<x>> \o SeqOf(S \ {x})

\* The orders in which rebalance may visit the ids of lc (lc.replicas being
\* the new count), up to what the ring can depend on: the loops of two ids
\* that share no key commute, so the ids that share none go first, in one
\* order, and the ids that share a key follow in every order.
VisitOrders(lc) ==
    {SeqOf(DOMAIN lc.resources \ Contended(lc)) \o o : o \in Orders(Contended(lc))}

\* The rings rebalance may end with, one per order of resources.keys().
rebalanced(lc) ==
    LET count == Cardinality(DOMAIN lc.resources)
    IN  {rebalance(lc, o) :
            o \in VisitOrders([lc EXCEPT !.replicas = count + REPLICAS_PAD])}

\* add up to and including self.resources.insert
Inserted(lc, res) ==
    LET s == AddReplicas(lc, res.id)
    IN  [s EXCEPT !.resources = [x \in DOMAIN s.resources \cup {res.id} |->
                                    IF x = res.id THEN res ELSE s.resources[x]]]

\* The threshold test written with >=.
Overfull_AtThreshold(lc) == Cardinality(DOMAIN lc.resources) >= lc.size

Overfull(lc) == Cardinality(DOMAIN lc.resources) > lc.size

\* add without the threshold test.
add_NoRebalance(lc, res) == {Inserted(lc, res)}

\* add: the rings it may end with (one per order of a triggered rebalance).
add(lc, res) ==
    LET s == Inserted(lc, res)
    IN  IF Overfull(s) THEN rebalanced(s) ELSE {s}

\* remove that purges the cache and the registry but not the ring.
remove_LeavesRing(lc, res) ==
    [lc EXCEPT
        !.keycache = [x \in DOMAIN lc.keycache \ {res.id} |-> lc.keycache[x]],
        !.resources = [x \in DOMAIN lc.resources \ {res.id} |-> lc.resources[x]]]

\* remove that misses the key cached for replica index 0.
remove_SkipsFirstKey(lc, res) ==
    LET id == res.id
        gone == IF id \in DOMAIN lc.keycache
                THEN {lc.keycache[id][i] : i \in DOMAIN lc.keycache[id] \ {0}}
                ELSE {}
    IN  [lc EXCEPT
            !.hashring = [k \in DOMAIN lc.hashring \ gone |-> lc.hashring[k]],
            !.keycache = [x \in DOMAIN lc.keycache \ {id} |-> lc.keycache[x]],
            !.resources = [x \in DOMAIN lc.resources \ {id} |-> lc.resources[x]]]

\* remove that derives the keys to delete from the identifier, not the cache.
remove_Recomputes(lc, res) ==
    LET id == res.id
        gone == {Hash(HashItem(id, i)) : i \in 0..(lc.replicas - 1)}
    IN  [lc EXCEPT
            !.hashring = [k \in DOMAIN lc.hashring \ gone |-> lc.hashring[k]],
            !.keycache = [x \in DOMAIN lc.keycache \ {id} |-> lc.keycache[x]],
            !.resources = [x \in DOMAIN lc.resources \ {id} |-> lc.resources[x]]]

remove(lc, res) ==
    LET id == res.id
        gone == IF id \in DOMAIN lc.keycache
                THEN {lc.keycache[id][i] : i \in DOMAIN lc.keycache[id]}
                ELSE {}
    IN  [lc EXCEPT
            !.hashring = [k \in DOMAIN lc.hashring \ gone |-> lc.hashring[k]],
            !.keycache = [x \in DOMAIN lc.keycache \ {id} |-> lc.keycache[x]],
            !.resources = [x \in DOMAIN lc.resources \ {id} |-> lc.resources[x]]]

\* self.resources.get(id): an Option, as a set of at most one resource.
Get(lc, id) == IF id \in DOMAIN lc.resources THEN {lc.resources[id]} ELSE {}

\* locate without the wraparound to the first entry.
locate_NoWrap(lc, id) ==
    LET matching == {k \in DOMAIN lc.hashring : StrLeq(lc.hashring[k], id)}
    IN  IF matching # {} THEN Get(lc, lc.hashring[SetMax(matching)]) ELSE {}

locate(lc, id) ==
    LET matching == {k \in DOMAIN lc.hashring : StrLeq(lc.hashring[k], id)}
    IN  IF matching # {} THEN Get(lc, lc.hashring[SetMax(matching)])
        ELSE IF DOMAIN lc.hashring # {}
             THEN Get(lc, lc.hashring[SetMin(DOMAIN lc.hashring)])
             ELSE {}

resource_count(lc) == Cardinality(DOMAIN lc.resources)

len(lc) == Cardinality(DOMAIN lc.hashring)

(***************************************************************************)
(* History of the calls made, kept beside the ring.                        *)
(***************************************************************************)
\* Two distinct (identifier, replica index) pairs of registered resources have
\* the same replica key.
KeyShared(lc) ==
    \E x, y \in DOMAIN lc.keycache :
        /\ x # y
        /\ \E i \in DOMAIN lc.keycache[x], j \in DOMAIN lc.keycache[y] :
              lc.keycache[x][i] = lc.keycache[y][j]

NoFruit == [id |-> <<>>, tag |-> 0]

Unbuilt == [pure |-> FALSE, start |-> Default, order |-> <<>>]

Become(lc) ==
    /\ replicas' = lc.replicas
    /\ size' = lc.size
    /\ resources' = lc.resources
    /\ hashring' = lc.hashring
    /\ keycache' = lc.keycache

(***************************************************************************)
(* The state machine.                                                      *)
(***************************************************************************)
Init ==
    \E lc \in {Default} \cup {new_with_replica_count(r) : r \in ReplicaArgs} :
        /\ replicas = lc.replicas
        /\ size = lc.size
        /\ resources = lc.resources
        /\ hashring = lc.hashring
        /\ keycache = lc.keycache
        /\ call = [op |-> "new", arg |-> NoFruit, pre |-> lc, round |-> FALSE,
                   pre2 |-> lc]
        /\ built = [pure |-> TRUE, start |-> lc, order |-> <<>>]
        /\ clash = FALSE

\* add(res) comes right after remove of the registered resource of that id.
RoundTrip(res) ==
    /\ call.op = "remove"
    /\ call.arg.id = res.id
    /\ res.id \in DOMAIN call.pre.resources

Add(res) ==
    \E out \in add(Self, res) :
        /\ Become(out)
        /\ call' = [op |-> "add", arg |-> res, pre |-> Self,
                    round |-> RoundTrip(res),
                    pre2 |-> IF RoundTrip(res) THEN call.pre ELSE Self]
        /\ built' = IF built.pure /\ res.id \notin DOMAIN resources
                       /\ ~Overfull(Inserted(Self, res))
                    THEN [built EXCEPT !.order = Append(@, res.id)]
                    ELSE Unbuilt
        /\ clash' = (clash \/ KeyShared(out))

Remove(res) ==
    /\ Become(remove(Self, res))
    /\ call' = [op |-> "remove", arg |-> res, pre |-> Self, round |-> FALSE,
                pre2 |-> Self]
    /\ built' = Unbuilt
    /\ UNCHANGED clash

Rebalance ==
    \E out \in rebalanced(Self) :
        /\ Become(out)
        /\ call' = [op |-> "rebalance", arg |-> NoFruit, pre |-> Self,
                    round |-> FALSE, pre2 |-> Self]
        /\ built' = Unbuilt
        /\ clash' = (clash \/ KeyShared(out))

Next ==
    \/ \E res \in Fruits : Add(res)
    \/ \E res \in Fruits : Remove(res)
    \/ Rebalance

Spec == Init /\ [][Next]_vars

(***************************************************************************)
(* What the specification says of locate: the ring entry that is the       *)
(* clockwise successor of hash(k).                                         *)
(***************************************************************************)
\* The entry <<key, id>> that succeeds hash(k), wrapping to the smallest key;
\* a set of at most one entry.
SuccessorEntry(lc, k) ==
    LET ge == {x \in DOMAIN lc.hashring : x >= Hash(k)}
    IN  IF ge # {} THEN {<<SetMin(ge), lc.hashring[SetMin(ge)]>>}
        ELSE IF DOMAIN lc.hashring # {}
             THEN {<<SetMin(DOMAIN lc.hashring),
                     lc.hashring[SetMin(DOMAIN lc.hashring)]>>}
             ELSE {}

IdsOf(found) == {r.id : r \in found}

EntriesOf(lc, id) == {k \in DOMAIN lc.hashring : lc.hashring[k] = id}

\* The call that led to this state was add of an identifier already registered.
DuplicateAdd == call.op = "add" /\ call.arg.id \in DOMAIN call.pre.resources

\* The call that led to this state was add of a new identifier, no rebalance.
PlainNewAdd ==
    /\ call.op = "add"
    /\ call.arg.id \notin DOMAIN call.pre.resources
    /\ ~Overfull(Inserted(call.pre, call.arg))

\* The call that led to this state was remove of a registered resource.
RegisteredRemove ==
    call.op = "remove" /\ call.arg.id \in DOMAIN call.pre.resources

(***************************************************************************)
(* C1: for every lookup key k of a non-empty ring, locate(k) returns the   *)
(* resource of the first entry, in ascending key order, whose key is >=    *)
(* hash(k), or of the entry with the smallest key when there is none.      *)
(***************************************************************************)
C1_LocateIsSuccessor ==
    \A k \in LookupKeys :
        \A e \in SuccessorEntry(Self, k) : locate(Self, k) = Get(Self, e[2])

(***************************************************************************)
(* C2: when add(X) of a new resource triggers no rebalance and the         *)
(* successor entry of hash(k) is the same entry of a registered Y before   *)
(* and after it, locate(k) returns Y before and after.                     *)
(***************************************************************************)
C2_StableUnderAdd ==
    PlainNewAdd =>
        \A k \in LookupKeys :
            \A e \in SuccessorEntry(call.pre, k) :
                (SuccessorEntry(Self, k) = {e} /\ e[2] \in DOMAIN call.pre.resources)
                => /\ IdsOf(locate(call.pre, k)) = {e[2]}
                   /\ IdsOf(locate(Self, k)) = {e[2]}

(***************************************************************************)
(* C3: a ring built from a fresh ring by adding a set of resources with    *)
(* distinct identifiers has the same Ring Index, and the same locate(k)    *)
(* for every k, as the ring built by adding that set in any other order.   *)
(***************************************************************************)
RECURSIVE AddAll(_, _, _)
AddAll(lcs, reg, order) ==
    IF order = <<>> THEN lcs
    ELSE AddAll(UNION {add(lc, reg[Head(order)]) : lc \in lcs}, reg, Tail(order))

C3_OrderIndependent ==
    built.pure =>
        \A o \in Orders(DOMAIN resources) :
            \A other \in AddAll({built.start}, resources, o) :
                /\ other.hashring = hashring
                /\ \A k \in LookupKeys :
                      IdsOf(locate(other, k)) = IdsOf(locate(Self, k))

(***************************************************************************)
(* C4: locate(k) returns a registered resource for every k whenever at     *)
(* least one resource is registered, and nothing on an empty ring.         *)
(***************************************************************************)
C4_LocateTotal ==
    \A k \in LookupKeys :
        IF resource_count(Self) = 0 THEN locate(Self, k) = {}
        ELSE \E id \in DOMAIN resources : locate(Self, k) = {resources[id]}

(***************************************************************************)
(* C5: provided no two distinct (identifier, replica index) pairs share a  *)
(* replica key, every registered resource has exactly replica_count        *)
(* entries in the Ring Index and len() = resource_count() * replica_count. *)
(***************************************************************************)
C5_ReplicasPerResource ==
    ~clash =>
        /\ \A id \in DOMAIN resources :
              Cardinality(EntriesOf(Self, id)) = replicas
        /\ len(Self) = resource_count(Self) * replicas

C5_Witness ==
    /\ ~clash
    /\ call.op \in {"add", "remove", "rebalance"}
    /\ resource_count(Self) = 2
    /\ replicas >= 2
    /\ len(Self) = 2 * replicas

(***************************************************************************)
(* C6: every entry of the Ring Index maps its key to an identifier that is *)
(* in the Registry.                                                        *)
(***************************************************************************)
C6_NoDanglingEntry ==
    \A k \in DOMAIN hashring : hashring[k] \in DOMAIN resources

C6_Witness ==
    /\ RegisteredRemove
    /\ len(call.pre) > len(Self)
    /\ len(Self) > 0

(***************************************************************************)
(* C7: add of an identifier that is already registered leaves              *)
(* resource_count() and len() unchanged and triggers no rebalance.         *)
(***************************************************************************)
C7_DuplicateAddKeepsCounts ==
    DuplicateAdd =>
        /\ resource_count(Self) = resource_count(call.pre)
        /\ len(Self) = len(call.pre)
        /\ ~Overfull(Inserted(call.pre, call.arg))

(***************************************************************************)
(* C8: add of an identifier that is already registered leaves the resource *)
(* stored in the Registry for it, and its Ring Index entries, untouched.   *)
(***************************************************************************)
C8_DuplicateAddKeepsResource ==
    DuplicateAdd =>
        /\ resources[call.arg.id] = call.pre.resources[call.arg.id]
        /\ EntriesOf(Self, call.arg.id) = EntriesOf(call.pre, call.arg.id)

(***************************************************************************)
(* C9: provided no two distinct (identifier, replica index) pairs share a  *)
(* replica key, remove of a registered resource r takes exactly            *)
(* replica_count entries out of the Ring Index and one resource out of the *)
(* Registry, leaves no entry mapped to r, and no locate(k) returns r.      *)
(***************************************************************************)
C9_CleanRemove ==
    (RegisteredRemove /\ ~clash) =>
        /\ len(Self) = len(call.pre) - call.pre.replicas
        /\ resource_count(Self) = resource_count(call.pre) - 1
        /\ EntriesOf(Self, call.arg.id) = {}
        /\ \A k \in LookupKeys : call.arg.id \notin IdsOf(locate(Self, k))

C9_Witness ==
    /\ RegisteredRemove
    /\ ~clash
    /\ call.pre.replicas >= 2
    /\ \E k \in LookupKeys : IdsOf(locate(call.pre, k)) = {call.arg.id}
    /\ \E k \in LookupKeys : locate(Self, k) # {}

(***************************************************************************)
(* C10: remove(C) of a registered resource immediately followed by add(C)  *)
(* gives back the Ring Index that was there before the remove, with the    *)
(* same resource_count, replica_count and size_threshold.                  *)
(***************************************************************************)
C10_RemoveAddRoundTrip ==
    call.round =>
        /\ hashring = call.pre2.hashring
        /\ resource_count(Self) = resource_count(call.pre2)
        /\ replicas = call.pre2.replicas
        /\ size = call.pre2.size

(***************************************************************************)
(* C11: rebalance() leaves the registered resources unchanged, sets        *)
(* replica_count to resource_count + 8 and size_threshold to               *)
(* resource_count + 16, and (no replica key being shared by two            *)
(* (identifier, index) pairs) ends with len() = resource_count() times the *)
(* new replica_count.                                                      *)
(***************************************************************************)
C11_RebalanceEquivalence ==
    call.op = "rebalance" =>
        /\ resources = call.pre.resources
        /\ resource_count(Self) = resource_count(call.pre)
        /\ replicas = resource_count(Self) + 8
        /\ size = resource_count(Self) + 16
        /\ ~clash => len(Self) = resource_count(Self) * replicas

C11_Witness ==
    /\ call.op = "rebalance"
    /\ ~clash
    /\ resource_count(Self) = 2
    /\ call.pre.replicas # replicas
    /\ len(Self) = 20

C13_DistinctReplicaKeys ==
    /\ call.op = "add" =>
          \A k \in ReplicaKeys(call.pre, call.arg.id) :
              k \in DOMAIN call.pre.hashring => call.pre.hashring[k] = call.arg.id
    /\ \A x, y \in DOMAIN resources :
          \A i, j \in 0..(replicas - 1) :
              <<x, i>> # <<y, j>> => Hash(HashItem(x, i)) # Hash(HashItem(y, j))

(***************************************************************************)
(* C14: remove of a resource whose identifier is not registered changes    *)
(* nothing: Registry, Ring Index, cache, replica_count, size_threshold.    *)
(***************************************************************************)
C14_RemoveAbsentIsNoOp ==
    (call.op = "remove" /\ call.arg.id \notin DOMAIN call.pre.resources) =>
        Self = call.pre

C14_Witness ==
    /\ call.op = "remove"
    /\ call.arg.id \notin DOMAIN call.pre.resources
    /\ resource_count(call.pre) >= 1
    /\ len(call.pre) >= 11

(***************************************************************************)
(* C15 as stated: rebalance() on a ring with no resources leaves the Ring  *)
(* Index empty and replica_count, size_threshold, Registry and cache as    *)
(* they were.                                                              *)
(***************************************************************************)
C15_EmptyRebalanceIsNoOp ==
    (call.op = "rebalance" /\ resource_count(call.pre) = 0) =>
        /\ hashring = Empty
        /\ Self = call.pre

(***************************************************************************)
(* C15 as amended: rebalance() on a ring with no resources leaves the Ring *)
(* Index empty and the Registry and the cache as they were, and sets       *)
(* replica_count to 8 and size_threshold to 16.                            *)
(***************************************************************************)
C15_EmptyRebalanceResets ==
    (call.op = "rebalance" /\ resource_count(call.pre) = 0) =>
        /\ hashring = Empty
        /\ resources = call.pre.resources
        /\ keycache = call.pre.keycache
        /\ replicas = 8
        /\ size = 16

C15_Witness ==
    /\ call.op = "rebalance"
    /\ resource_count(call.pre) = 0
    /\ call.pre.replicas # replicas
    /\ call.pre.size # size

(***************************************************************************)
(* C17: every Ring Index entry key -> id has its key among the keys cached *)
(* for id, so that remove of a registered resource leaves no entry of its  *)
(* identifier in the Ring Index.                                           *)
(***************************************************************************)
C17_IndexedKeysAreCached ==
    /\ \A k \in DOMAIN hashring :
          /\ hashring[k] \in DOMAIN keycache
          /\ \E i \in DOMAIN keycache[hashring[k]] : keycache[hashring[k]][i] = k
    /\ RegisteredRemove => EntriesOf(Self, call.arg.id) = {}

\* A ring whose cache holds more keys than are indexed, and a remove that
\* took entries out of it.
C17_Witness ==
    /\ RegisteredRemove
    /\ len(Self) > 0
    /\ len(call.pre) > len(Self)
    /\ \E id \in DOMAIN keycache :
          Cardinality(DOMAIN keycache[id]) > Cardinality(EntriesOf(Self, id))

(***************************************************************************)
(* C18: rebalance keeps every cache entry there was, unchanged; the        *)
(* entries it creates are for replica indices at or above the old count    *)
(* and below the new one; every cached key for (id, i) is hash(id ++ i).   *)
(***************************************************************************)
C18_RebalanceKeepsCache ==
    /\ call.op = "rebalance" =>
          /\ DOMAIN keycache = DOMAIN call.pre.keycache
          /\ \A id \in DOMAIN call.pre.keycache :
                /\ \A i \in DOMAIN call.pre.keycache[id] :
                      /\ i \in DOMAIN keycache[id]
                      /\ keycache[id][i] = call.pre.keycache[id][i]
                /\ \A i \in DOMAIN keycache[id] \ DOMAIN call.pre.keycache[id] :
                      call.pre.replicas <= i /\ i < replicas
    /\ \A id \in DOMAIN keycache :
          \A i \in DOMAIN keycache[id] : keycache[id][i] = Hash(HashItem(id, i))

\* A rebalance that grew the cache of one identifier and left another's,
\* which already held more keys than the new count, alone.
C18_Witness ==
    /\ call.op = "rebalance"
    /\ \E id \in DOMAIN keycache :
          DOMAIN call.pre.keycache[id] # DOMAIN keycache[id]
    /\ \E id \in DOMAIN keycache :
          Cardinality(DOMAIN keycache[id]) > replicas

(***************************************************************************)
(* A ring at its size threshold: observed from the point where Prefilled   *)
(* resources have been added to a fresh ring.                              *)
(***************************************************************************)
\* Identifiers "aa", "ab", ..., in the order they are added; "c" and "c1"
\* share replica keys from replica index 10 on.
GrowIds ==
    << <<"a", "a">>, <<"a", "b">>, <<"a", "c">>, <<"b", "a">>, <<"b", "b">>,
       <<"b", "c">>, <<"c", "a">>, <<"c", "b">>, <<"c", "c">>,
       <<"a", "a", "a">>, <<"a", "a", "b">>, <<"a", "a", "c">>,
       <<"a", "b", "a">>, <<"a", "b", "b">>, <<"a", "b", "c">>,
       <<"c">>, <<"c", "1">>, <<"b", "c", "a">>, <<"b", "c", "b">>,
       <<"c", "a", "b">>, <<"c", "b", "a">>, <<"c", "b", "b">> >>

GrowRegistry ==
    [id \in {GrowIds[n] : n \in 1..Len(GrowIds)} |-> [id |-> id, tag |-> 1]]

\* The resources handed to add and remove from then on: the first one
\* added, and the next two that were not.
GrowFruits ==
    {GrowRegistry[GrowIds[n]] : n \in {1, Prefilled + 1, Prefilled + 2}}

GrowStarts == {Default, new_with_replica_count(1)}

InitGrow ==
    \E lc0 \in GrowStarts :
        \E before \in AddAll({lc0}, GrowRegistry, SubSeq(GrowIds, 1, Prefilled - 1)) :
            \E lc \in add(before, GrowRegistry[GrowIds[Prefilled]]) :
                /\ replicas = lc.replicas
                /\ size = lc.size
                /\ resources = lc.resources
                /\ hashring = lc.hashring
                /\ keycache = lc.keycache
                /\ call = [op |-> "add", arg |-> GrowRegistry[GrowIds[Prefilled]],
                           pre |-> before, round |-> FALSE, pre2 |-> before]
                /\ built = [pure |-> TRUE, start |-> lc0,
                            order |-> SubSeq(GrowIds, 1, Prefilled)]
                /\ clash = KeyShared(lc)

GrowNext ==
    \/ \E res \in GrowFruits : Add(res)
    \/ \E res \in GrowFruits : Remove(res)
    \/ Rebalance

SpecGrow == InitGrow /\ [][GrowNext]_vars

\* The call that led to this state was an add whose post-insert
\* resource_count exceeded the size threshold.
OverfullAdd ==
    /\ call.op = "add"
    /\ Cardinality(DOMAIN call.pre.resources \cup {call.arg.id}) > call.pre.size

\* Every registered resource is indexed at replica_count, and nothing else is.
Reindexed ==
    /\ \A id \in DOMAIN resources :
          \A i \in 0..(replicas - 1) :
              /\ Hash(HashItem(id, i)) \in DOMAIN hashring
              /\ ~clash => hashring[Hash(HashItem(id, i))] = id
    /\ \A k \in DOMAIN hashring :
          /\ hashring[k] \in DOMAIN resources
          /\ \E i \in 0..(replicas - 1) : k = Hash(HashItem(hashring[k], i))

\* The Ring Index is the one before the call but for entries of the added id.
OnlyAddedEntries ==
    /\ \A k \in DOMAIN call.pre.hashring :
          /\ k \in DOMAIN hashring
          /\ hashring[k] \in {call.pre.hashring[k], call.arg.id}
    /\ \A k \in DOMAIN hashring :
          (k \notin DOMAIN call.pre.hashring \/ hashring[k] # call.pre.hashring[k])
          => /\ hashring[k] = call.arg.id
             /\ \E i \in 0..(replicas - 1) : k = Hash(HashItem(call.arg.id, i))

(***************************************************************************)
(* C16: add invokes rebalance exactly when the post-insert resource_count  *)
(* exceeds size_threshold: otherwise replica_count and size_threshold are  *)
(* unchanged and only entries of the added resource are inserted; if so,   *)
(* add ends with replica_count = resource_count + 8, size_threshold =      *)
(* resource_count + 16 and every registered resource indexed at the new    *)
(* replica_count.                                                          *)
(***************************************************************************)
C16_AddRebalancesWhenOverfull ==
    call.op = "add" =>
        /\ DOMAIN resources = DOMAIN call.pre.resources \cup {call.arg.id}
        /\ IF OverfullAdd
           THEN /\ replicas = resource_count(Self) + 8
                /\ size = resource_count(Self) + 16
                /\ Reindexed
           ELSE /\ replicas = call.pre.replicas
                /\ size = call.pre.size
                /\ OnlyAddedEntries

C16_Witness ==
    /\ OverfullAdd
    /\ resource_count(call.pre) = call.pre.size
    /\ replicas = resource_count(Self) + 8
    /\ len(Self) > len(call.pre) + call.pre.replicas

(***************************************************************************)
(* C19: over add and remove calls replica_count never decreases, and a     *)
(* rebalance triggered inside add leaves replica_count and size_threshold  *)
(* strictly greater than they were before that add.                        *)
(***************************************************************************)
C19_ReplicasNeverDecrease ==
    /\ call.op \in {"add", "remove"} =>
          /\ replicas >= call.pre.replicas
          /\ size >= call.pre.size
    /\ OverfullAdd =>
          /\ replicas > call.pre.replicas
          /\ size > call.pre.size

C19_Witness ==
    /\ OverfullAdd
    /\ replicas > call.pre.replicas
    /\ size > call.pre.size
    /\ call.pre.replicas >= 1

(***************************************************************************)
(* C20: after every completed add, remove or rebalance,                    *)
(* resource_count() <= size_threshold.                                     *)
(***************************************************************************)
C20_WithinThreshold == resource_count(Self) <= size

\* An add that filled the ring to its threshold, without exceeding it.
C20_Witness ==
    /\ call.op = "add"
    /\ resource_count(Self) = size
    /\ resource_count(call.pre) = size - 1

====
